---------------------------- MODULE Spec2Model ----------------------------
(***************************************************************************)
(* A model of pytorch/pytorchcv/models/others/fishnet.py.                  *)
(*                                                                         *)
(* Tensors are modelled at two levels.  Where the values matter            *)
(* (channel_squeeze) a tensor is the sequence of its channels, each        *)
(* channel standing for one (batch, height, width) slab and represented    *)
(* by an integer, so that the element-wise sum of slabs is integer         *)
(* addition.  Where only the geometry matters (blocks, units, the          *)
(* network) a tensor is its size <<channels, height, width>>; the batch    *)
(* axis is carried separately because every layer passes it through.       *)
(*                                                                         *)
(* A Python call either returns a value or raises: a result is a record    *)
(* [err, val] with err = "none" for a normal return.                       *)
(***************************************************************************)
EXTENDS Integers, Sequences, FiniteSets, TLC

\* ------------------------------------------------------------------ bounds
MaxChannels == 4      \* channels of a tensor handed to channel_squeeze
MaxVal == 1           \* channel values are drawn from 0..MaxVal
MaxCh == 10           \* FishBlock channel counts are drawn from 4..MaxCh
MaxUnitCh == 6        \* unit channel counts are drawn from 4..MaxUnitCh
MaxBlocks == 2        \* length of a unit's out_channels_list
MaxDil == 2           \* dilation of a FishBlock
MaxSize == 4          \* height and width of a feature map
MaxBatch == 2         \* batch size of a forward pass of the network

\* ------------------------------------------------------- program constants
DefaultInChannels == 3
DefaultInSize == 224
DefaultNumClasses == 1000
InitBlockChannels == 64
FinalPoolKernel == 7

\* ------------------------------------------------------------ Python values
None == [kind |-> "None"]

Ok(v) == [err |-> "none", val |-> v]

Raise(e) == [err |-> e, val |-> None]

IsOk(r) == r.err = "none"

\* Sequencing of calls: F runs on r's value unless r raised, in which case
\* the exception propagates.
Bind(r, F(_)) == IF r.err = "none" THEN F(r.val) ELSE Raise(r.err)

RECURSIVE SumTo(_, _)
SumTo(f, n) == IF n = 0 THEN 0 ELSE f[n] + SumTo(f, n - 1)

\* -------------------------------------------------------- channel_squeeze
\* x.view(batch, channels_per_group, groups, height, width).sum(dim=2):
\* the view is row-major, so channel c (0-based) lands at
\* [c // groups][c % groups]; summing dim 2 adds the `groups` adjacent
\* channels k*groups .. k*groups+groups-1 into output channel k.  The view
\* raises when channels_per_group * groups is not the channel count.
\* (Indices below are 1-based.)
channel_squeeze_halves(x, groups) ==
    LET channels == Len(x)
        channels_per_group == channels \div groups
    IN  IF channels_per_group * groups # channels
        THEN Raise("RuntimeError")
        ELSE Ok([k \in 1..channels_per_group |->
                   SumTo([g \in 1..groups |-> x[(g - 1) * channels_per_group + k]],
                         groups)])

channel_squeeze(x, groups) ==
    LET channels == Len(x)
        channels_per_group == channels \div groups
    IN  IF channels_per_group * groups # channels
        THEN Raise("RuntimeError")
        ELSE Ok([k \in 1..channels_per_group |->
                   SumTo([g \in 1..groups |-> x[(k - 1) * groups + g]], groups)])

\* ChannelSqueeze.__init__
ChannelSqueezeInit_nocheck(channels, groups) ==
    Ok([kind |-> "ChannelSqueeze", groups |-> groups])

ChannelSqueezeInit(channels, groups) ==
    IF channels % groups # 0
    THEN Raise("ValueError")
    ELSE Ok([kind |-> "ChannelSqueeze", groups |-> groups])

\* ChannelSqueeze.forward on a tensor of size <<C, H, W>>: the size of
\* channel_squeeze's result, computed by channel_squeeze itself on a zero
\* tensor of C channels; height and width are untouched by the view/sum.
ChannelSqueezeForward(cs, size) ==
    LET r == channel_squeeze([c \in 1..size[1] |-> 0], cs.groups)
    IN  IF IsOk(r) THEN Ok(<<Len(r.val), size[2], size[3]>>) ELSE Raise(r.err)

\* ------------------------------------- primitive layers (external, common.py)
\* Output extent of a convolution or pooling window along one axis.
WindowOut(n, kernel, stride, padding, dilation) ==
    ((n + 2 * padding - dilation * (kernel - 1) - 1) \div stride) + 1

pre_conv1x1_block(in_channels, out_channels, stride) ==
    [kind |-> "pre_conv1x1_block", in_channels |-> in_channels,
     out_channels |-> out_channels, kernel_size |-> 1, stride |-> stride,
     padding |-> 0, dilation |-> 1]

pre_conv3x3_block(in_channels, out_channels, stride, padding, dilation) ==
    [kind |-> "pre_conv3x3_block", in_channels |-> in_channels,
     out_channels |-> out_channels, kernel_size |-> 3, stride |-> stride,
     padding |-> padding, dilation |-> dilation]

conv1x1(in_channels, out_channels) ==
    [kind |-> "conv1x1", in_channels |-> in_channels,
     out_channels |-> out_channels, kernel_size |-> 1, stride |-> 1,
     padding |-> 0, dilation |-> 1]

\* A convolution layer applied to a tensor of size <<C, H, W>>.
ConvForward(layer, size) ==
    LET h == WindowOut(size[2], layer.kernel_size, layer.stride,
                       layer.padding, layer.dilation)
        w == WindowOut(size[3], layer.kernel_size, layer.stride,
                       layer.padding, layer.dilation)
    IN  IF size[1] # layer.in_channels \/ h < 1 \/ w < 1
        THEN Raise("RuntimeError")
        ELSE Ok(<<layer.out_channels, h, w>>)

\* --------------------------------------------------------- FishBottleneck
\* FishBottleneck.__init__
FishBottleneckInit_strict(in_channels, out_channels, stride, dilation) ==
    IF out_channels % 4 # 0
    THEN Raise("ValueError")
    ELSE Ok([kind |-> "FishBottleneck",
             mid_channels |-> out_channels \div 4,
             conv1 |-> pre_conv1x1_block(in_channels, out_channels \div 4, 1),
             conv2 |-> pre_conv3x3_block(out_channels \div 4, out_channels \div 4,
                                         stride, dilation, dilation),
             conv3 |-> pre_conv1x1_block(out_channels \div 4, out_channels, 1)])

FishBottleneckInit(in_channels, out_channels, stride, dilation) ==
    LET mid_channels == out_channels \div 4
    IN  Ok([kind |-> "FishBottleneck",
            mid_channels |-> mid_channels,
            conv1 |-> pre_conv1x1_block(in_channels, mid_channels, 1),
            conv2 |-> pre_conv3x3_block(mid_channels, mid_channels,
                                        stride, dilation, dilation),
            conv3 |-> pre_conv1x1_block(mid_channels, out_channels, 1)])

\* FishBottleneck.forward
FishBottleneckForward(body, size) ==
    Bind(ConvForward(body.conv1, size), LAMBDA x1 :
    Bind(ConvForward(body.conv2, x1), LAMBDA x2 :
    ConvForward(body.conv3, x2)))

\* -------------------------------------------------------------- FishBlock
\* FishBlock.__init__.  The body is built first; the assertion and the
\* ChannelSqueeze constructor run only when squeeze is set.
FishBlockObj(squeeze, resize_identity, body, c_squeeze, identity_conv) ==
    [kind |-> "FishBlock", squeeze |-> squeeze,
     resize_identity |-> resize_identity, body |-> body,
     c_squeeze |-> c_squeeze, identity_conv |-> identity_conv]

FishBlockInit(in_channels, out_channels, stride, dilation, squeeze) ==
    Bind(FishBottleneckInit(in_channels, out_channels, stride, dilation),
         LAMBDA body :
    IF squeeze
    THEN IF in_channels \div 2 # out_channels THEN Raise("AssertionError")
         ELSE Bind(ChannelSqueezeInit(in_channels, 2), LAMBDA c_squeeze :
              Ok(FishBlockObj(squeeze,
                              (in_channels # out_channels) \/ (stride # 1),
                              body, c_squeeze, None)))
    ELSE IF (in_channels # out_channels) \/ (stride # 1)
    THEN Ok(FishBlockObj(squeeze, TRUE, body, None,
                         pre_conv1x1_block(in_channels, out_channels, stride)))
    ELSE Ok(FishBlockObj(squeeze, FALSE, body, None, None)))

\* x + identity: the sizes are broadcast axis by axis (equal, or one is 1).
AddSizes(a, b) ==
    IF \A i \in 1..3 : a[i] = b[i] \/ a[i] = 1 \/ b[i] = 1
    THEN Ok([i \in 1..3 |-> IF a[i] >= b[i] THEN a[i] ELSE b[i]])
    ELSE Raise("RuntimeError")

\* What one forward call did: the shortcut branch it took, the sizes of the
\* shortcut and of the body output, and the result of the addition.
FwdResult(err, branch, identity, bodyout, val) ==
    [err |-> err, branch |-> branch, identity |-> identity,
     bodyout |-> bodyout, val |-> val]

NoSize == <<0, 0, 0>>

\* The shortcut of FishBlock.forward; reading an attribute that __init__
\* never set raises AttributeError.
Shortcut_resizeFirst(b, size) ==
    IF b.resize_identity
    THEN [branch |-> "projection",
          r |-> IF b.identity_conv.kind = "None" THEN Raise("AttributeError")
                ELSE ConvForward(b.identity_conv, size)]
    ELSE IF b.squeeze
    THEN [branch |-> "squeeze",
          r |-> IF b.c_squeeze.kind = "None" THEN Raise("AttributeError")
                ELSE ChannelSqueezeForward(b.c_squeeze, size)]
    ELSE [branch |-> "identity", r |-> Ok(size)]

Shortcut(b, size) ==
    IF b.squeeze
    THEN [branch |-> "squeeze",
          r |-> IF b.c_squeeze.kind = "None" THEN Raise("AttributeError")
                ELSE ChannelSqueezeForward(b.c_squeeze, size)]
    ELSE IF b.resize_identity
    THEN [branch |-> "projection",
          r |-> IF b.identity_conv.kind = "None" THEN Raise("AttributeError")
                ELSE ConvForward(b.identity_conv, size)]
    ELSE [branch |-> "identity", r |-> Ok(size)]

\* The end of FishBlock.forward, x = self.body(x); x = x + identity, given
\* the shortcut sc already computed and the body's result bo.
Residual(sc, bo) ==
    IF ~IsOk(sc.r) THEN FwdResult(sc.r.err, sc.branch, NoSize, NoSize, NoSize)
    ELSE IF ~IsOk(bo) THEN FwdResult(bo.err, sc.branch, sc.r.val, NoSize, NoSize)
    ELSE IF ~IsOk(AddSizes(bo.val, sc.r.val))
    THEN FwdResult("RuntimeError", sc.branch, sc.r.val, bo.val, NoSize)
    ELSE FwdResult("none", sc.branch, sc.r.val, bo.val,
                   AddSizes(bo.val, sc.r.val).val)

\* FishBlock.forward
FishBlockForward(b, size) ==
    Residual(Shortcut(b, size), FishBottleneckForward(b.body, size))

\* ------------------------------------------- InterpolationBlock, MaxPool2d
\* InterpolationBlock.__init__ (mode defaults to "nearest")
InterpolationBlockInit(scale_factor, mode) ==
    [kind |-> "InterpolationBlock", scale_factor |-> scale_factor, mode |-> mode]

\* InterpolationBlock.forward: F.interpolate(input=x, scale_factor=...,
\* mode=self.mode, align_corners=True).  torch.nn.functional.interpolate
\* rejects a non-None align_corners for the modes "nearest" and "area"
\* ("align_corners option can only be set with the interpolating modes:
\* linear | bilinear | bicubic | trilinear") with a ValueError; for the
\* interpolating modes it scales height and width.
InterpolationBlockForward(ib, size) ==
    IF ib.mode \in {"nearest", "area"}
    THEN Raise("ValueError")
    ELSE Ok(<<size[1], size[2] * ib.scale_factor, size[3] * ib.scale_factor>>)

\* nn.MaxPool2d(kernel_size=2, stride=2) / nn.AvgPool2d(kernel_size=7, stride=1)
Pool2d(kind, kernel_size, stride) ==
    [kind |-> kind, kernel_size |-> kernel_size, stride |-> stride]

Pool2dForward(pool, size) ==
    LET h == WindowOut(size[2], pool.kernel_size, pool.stride, 0, 1)
        w == WindowOut(size[3], pool.kernel_size, pool.stride, 0, 1)
    IN  IF h < 1 \/ w < 1 THEN Raise("RuntimeError")
        ELSE Ok(<<size[1], h, w>>)

\* ------------------------------------------- DownUnit / UpUnit / SkipUnit
\* The loop shared by the three constructors:
\*   for i, out_channels in enumerate(out_channels_list):
\*       blocks.add_module(..., FishBlock(in_channels, out_channels))
\*       in_channels = out_channels
RECURSIVE BuildBlocks(_, _, _)
BuildBlocks(in_channels, out_channels_list, blocks) ==
    IF out_channels_list = <<>> THEN Ok(blocks)
    ELSE Bind(FishBlockInit(in_channels, Head(out_channels_list), 1, 1, FALSE),
              LAMBDA b :
              BuildBlocks(Head(out_channels_list), Tail(out_channels_list),
                          Append(blocks, b)))

UnitObj(kind, blocks, tail) == [kind |-> kind, blocks |-> blocks, tail |-> tail]

\* DownUnit.__init__
DownUnitInit(in_channels, out_channels_list) ==
    Bind(BuildBlocks(in_channels, out_channels_list, <<>>), LAMBDA blocks :
         Ok(UnitObj("DownUnit", blocks, Pool2d("MaxPool2d", 2, 2))))

\* UpUnit.__init__
UpUnitInit(in_channels, out_channels_list) ==
    Bind(BuildBlocks(in_channels, out_channels_list, <<>>), LAMBDA blocks :
         Ok(UnitObj("UpUnit", blocks, InterpolationBlockInit(2, "nearest"))))

\* SkipUnit.__init__
SkipUnitInit(in_channels, out_channels_list) ==
    Bind(BuildBlocks(in_channels, out_channels_list, <<>>), LAMBDA blocks :
         Ok(UnitObj("SkipUnit", blocks, None)))

\* nn.Sequential over the blocks: each block is fed the previous output.
RECURSIVE BlocksForward(_, _)
BlocksForward(blocks, size) ==
    IF blocks = <<>> THEN Ok(size)
    ELSE Bind(FishBlockForward(Head(blocks), size), LAMBDA x :
              BlocksForward(Tail(blocks), x))

\* DownUnit.forward / UpUnit.forward / SkipUnit.forward: self.blocks(x),
\* the blocks followed by the unit's last module (pool, upsample, nothing).
UnitForward(u, size) ==
    Bind(BlocksForward(u.blocks, size), LAMBDA x :
         IF u.tail.kind = "MaxPool2d" THEN Pool2dForward(u.tail, x)
         ELSE IF u.tail.kind = "InterpolationBlock"
              THEN InterpolationBlockForward(u.tail, x)
         ELSE Ok(x))

\* ------------------------------------------------- Python lists, generators
\* A list [...] and a generator expression (... for ...) hold the same
\* items, but a generator supports neither len() nor indexing.
PyList(items) == [kind |-> "list", items |-> items]

PyGen(items) == [kind |-> "generator", items |-> items]

\* len(v)
PyLen(v) == IF v.kind = "list" THEN Ok(Len(v.items)) ELSE Raise("TypeError")

\* v[i], i counted from 0
PyGetItem(v, i) ==
    IF v.kind # "list" THEN Raise("TypeError")
    ELSE IF i + 1 > Len(v.items) THEN Raise("IndexError")
    ELSE Ok(v.items[i + 1])

Min(a, b) == IF a <= b THEN a ELSE b

\* [c] * l
Repeat(c, l) == [i \in 1..l |-> c]

\* ------------------------------------------------------------ get_fishnet
\* The variant table of get_fishnet: the `blocks` dispatch.
Tables150 ==
    [direct_layers |-> <<<<2, 4, 8>>, <<2, 2, 2>>, <<2, 2, 4>>>>,
     skip_layers |-> <<<<2, 2, 2, 2>>, <<2, 2, 2, 2>>>>,
     direct_channels_per_layers |->
         <<<<128, 256, 512>>, <<512, 512, 384>>, <<256, 320, 832>>>>,
     skip_channels_per_layers |->
         <<<<64, 128, 256, 512>>, <<64, 128, 256, 512>>>>]

SelectVariant_with99(blocks) ==
    IF blocks \in {99, 150} THEN Ok(Tables150) ELSE Raise("ValueError")

SelectVariant(blocks) ==
    IF blocks = 99 THEN Raise("ValueError")
    ELSE IF blocks = 150 THEN Ok(Tables150)
    ELSE Raise("ValueError")

\* [([cij] * lij for (cij, lij) in zip(ci, li)) for (ci, li) in zip(C, L)]:
\* a list (here a sequence) whose elements are generators of lists.
ChannelSchedule(channels_per_layers, layers) ==
    [p \in 1..Min(Len(channels_per_layers), Len(layers)) |->
        PyGen([q \in 1..Min(Len(channels_per_layers[p]), Len(layers[p])) |->
                  PyList(Repeat(channels_per_layers[p][q], layers[p][q]))])]

\* ---------------------------------------------------------------- FishNet
\* A keyword call DownUnit(**kwargs) against the signature
\* DownUnit.__init__(self, in_channels, out_channels_list): a keyword that
\* names no parameter, or a parameter left without a value, is a TypeError.
DownUnitCall(kwargs) ==
    IF DOMAIN kwargs = {"in_channels", "out_channels_list"}
    THEN DownUnitInit(kwargs.in_channels, kwargs.out_channels_list)
    ELSE Raise("TypeError")

\* SEInitBlock(in_channels, out_channels) (external, senet.py)
SEInitBlock(in_channels, out_channels) ==
    [kind |-> "SEInitBlock", in_channels |-> in_channels,
     out_channels |-> out_channels]

\* SesquialteralHourglass(down1_seq, skip1_seq, up_seq, down2_seq, skip2_seq)
\* (external, common.py)
SesquialteralHourglass(down1_seq, skip1_seq, up_seq, down2_seq, skip2_seq) ==
    [kind |-> "SesquialteralHourglass", down1_seq |-> down1_seq,
     skip1_seq |-> skip1_seq, up_seq |-> up_seq, down2_seq |-> down2_seq,
     skip2_seq |-> skip2_seq]

\* The stage loop of FishNet.__init__, iteration i of range(depth + 1).
\* st carries the loop's variables: in_channels, down1_seq, skip1_seq.
RECURSIVE StageLoop(_, _, _, _, _)
StageLoop(i, depth, direct0, skip0, st) ==
    IF i > depth THEN Ok(st)
    ELSE
    Bind(PyGetItem(skip0, i), LAMBDA skip1 :
    Bind(PyGetItem(skip1, 0), LAMBDA skip1_first :
    Bind(PyLen(skip1), LAMBDA skip1_len :
    Bind(DownUnitCall([in_channels |-> st.in_channels,
                       out_channels |-> skip1_first,
                       layers |-> skip1_len]), LAMBDA su :
    IF i < depth
    THEN Bind(PyGetItem(direct0, i), LAMBDA down1 :
         Bind(PyGetItem(down1, 0), LAMBDA down1_first :
         Bind(PyLen(down1), LAMBDA down1_len :
         Bind(DownUnitCall([in_channels |-> st.in_channels,
                            out_channels |-> down1_first,
                            layers |-> down1_len]), LAMBDA du :
         StageLoop(i + 1, depth, direct0, skip0,
                   [in_channels |-> down1_first,
                    down1_seq |-> Append(st.down1_seq, du),
                    skip1_seq |-> Append(st.skip1_seq, su)])))))
    ELSE StageLoop(i + 1, depth, direct0, skip0,
                   [in_channels |-> skip1_first,
                    down1_seq |-> st.down1_seq,
                    skip1_seq |-> Append(st.skip1_seq, su)])))))

\* FishNet.__init__
FishNetInit(direct_channels, skip_channels, init_block_channels, in_channels, in_size, num_classes) ==
    Bind(PyLen(direct_channels[1]), LAMBDA depth :
    Bind(StageLoop(0, depth, direct_channels[1], skip_channels[1],
                   [in_channels |-> init_block_channels,
                    down1_seq |-> <<>>, skip1_seq |-> <<>>]), LAMBDA st :
    Ok([kind |-> "FishNet", in_size |-> in_size,
        num_classes |-> num_classes,
        init_block |-> SEInitBlock(in_channels, init_block_channels),
        hourglass |-> SesquialteralHourglass(st.down1_seq, st.skip1_seq,
                                             <<>>, <<>>, <<>>),
        final_pool |-> Pool2d("AvgPool2d", FinalPoolKernel, 1),
        final_conv |-> conv1x1(st.in_channels, num_classes)])))

\* SEInitBlock.forward (external): a stride-2 3x3 stem followed by a
\* stride-2 3x3 max-pool.
SEInitBlockForward(ib, size) ==
    IF size[1] # ib.in_channels THEN Raise("RuntimeError")
    ELSE Ok(<<ib.out_channels,
              WindowOut(WindowOut(size[2], 3, 2, 1, 1), 3, 2, 1, 1),
              WindowOut(WindowOut(size[3], 3, 2, 1, 1), 3, 2, 1, 1)>>)

\* SesquialteralHourglass.forward (external): with the up and second
\* down/skip sequences empty, the input is threaded through the stages of
\* the down sequence in order.
RECURSIVE HourglassForward(_, _)
HourglassForward(stages, size) ==
    IF stages = <<>> THEN Ok(size)
    ELSE Bind(UnitForward(Head(stages), size), LAMBDA x :
              HourglassForward(Tail(stages), x))

\* FishNet.forward on a batch of `batch` tensors of size <<C, H, W>>:
\* features (stem, hourglass, final_pool), output (final_conv), then
\* x.view(x.size(0), -1), which yields size <<batch, C' * H' * W'>>.
FishNetForward(net, batch, size) ==
    Bind(SEInitBlockForward(net.init_block, size), LAMBDA x0 :
    Bind(HourglassForward(net.hourglass.down1_seq, x0), LAMBDA x1 :
    Bind(Pool2dForward(net.final_pool, x1), LAMBDA x2 :
    Bind(ConvForward(net.final_conv, x2), LAMBDA x3 :
    Ok(<<batch, x3[1] * x3[2] * x3[3]>>)))))

\* Python's None and strings as values of model_name.
PyNone == [py |-> "None", s |-> ""]

PyStr(s) == [py |-> "str", s |-> s]

\* (model_name is None) or (not model_name)
NameMissing(model_name) == model_name.py = "None" \/ model_name.s = ""

\* The tail of get_fishnet once FishNet(...) has returned or raised:
\* the pretrained check, the weight download, `return net`.  `events`
\* lists what ran, in order.
FinishBuild(built, model_name, pretrained) ==
    IF ~IsOk(built)
    THEN [err |-> built.err, net |-> None, events |-> <<"FishNet">>]
    ELSE IF pretrained
    THEN IF NameMissing(model_name)
         THEN [err |-> "ValueError", net |-> None, events |-> <<"FishNet">>]
         ELSE [err |-> "none", net |-> built.val,
               events |-> <<"FishNet", "download_model">>]
    ELSE [err |-> "none", net |-> built.val, events |-> <<"FishNet">>]

\* ================================================================= state
\* The program is a sequence of calls into the module.  pc is the position
\* of the call in progress; the other variables hold its arguments, the
\* object it built and what it returned or raised.
VARIABLES pc, sq, block, fwd, unit, ufwd, frame, trace, y

vars == <<pc, sq, block, fwd, unit, ufwd, frame, trace, y>>

Unset == [err |-> "unset", val |-> None]

NoSq == [x |-> <<>>, groups |-> 0, out |-> Unset]

NoBlock ==
    [args |-> [in_channels |-> 0, out_channels |-> 0, stride |-> 0,
               dilation |-> 0, squeeze |-> FALSE],
     r |-> Unset]

NoFwd == [size |-> NoSize, r |-> FwdResult("unset", "", NoSize, NoSize, NoSize)]

NoUnit == [kind |-> "", in_channels |-> 0, out_channels_list |-> <<>>, r |-> Unset]

NoUfwd == [size |-> NoSize, r |-> Unset]

NoFrame ==
    [caller |-> "", blocks |-> 0, model_name |-> PyNone, pretrained |-> FALSE,
     in_size |-> 0, num_classes |-> 0, tables |-> None,
     direct_channels |-> <<>>, skip_channels |-> <<>>,
     err |-> "unset", net |-> None]

NoY == [batch |-> 0, r |-> Unset]

\* ---------------------------------------------------------------- inputs
Tensors == UNION {[1..n -> 0..MaxVal] : n \in 1..MaxChannels}

GroupChoices == {1, 2, 3}

Chans == 4..MaxCh

UnitChans == 4..MaxUnitCh

ChannelLists == UNION {[1..n -> UnitChans] : n \in 0..MaxBlocks}

Sizes == 1..MaxSize

BlockCodes == {34, 99, 100, 150}

ModelNames == {PyNone, PyStr(""), PyStr("fishnet99"), PyStr("fishnet150")}

InSizes == {DefaultInSize, 2 * DefaultInSize}

ClassCounts == {10, DefaultNumClasses}

Range(f) == {f[i] : i \in DOMAIN f}

Init ==
    /\ pc = "idle"
    /\ sq = NoSq
    /\ block = NoBlock
    /\ fwd = NoFwd
    /\ unit = NoUnit
    /\ ufwd = NoUfwd
    /\ frame = NoFrame
    /\ trace = <<>>
    /\ y = NoY

\* --------------------------------------------------------------- actions
\* y = channel_squeeze(x, groups)
SqueezeCall ==
    /\ pc = "idle"
    /\ \E x \in Tensors, groups \in GroupChoices :
          sq' = [x |-> x, groups |-> groups, out |-> channel_squeeze(x, groups)]
    /\ pc' = "squeezed"
    /\ UNCHANGED <<block, fwd, unit, ufwd, frame, trace, y>>

\* block = FishBlock(in_channels, out_channels, stride, dilation, squeeze)
BlockNew ==
    /\ pc = "idle"
    /\ \E in_channels \in Chans, out_channels \in Chans, stride \in {1, 2},
          dilation \in 1..MaxDil, squeeze \in BOOLEAN :
          block' = [args |-> [in_channels |-> in_channels,
                              out_channels |-> out_channels,
                              stride |-> stride, dilation |-> dilation,
                              squeeze |-> squeeze],
                    r |-> FishBlockInit(in_channels, out_channels, stride,
                                        dilation, squeeze)]
    /\ pc' = "block"
    /\ UNCHANGED <<sq, fwd, unit, ufwd, frame, trace, y>>

\* block(x) for x of size <<in_channels, H, W>>
BlockForward ==
    /\ pc = "block"
    /\ IsOk(block.r)
    /\ \E h \in Sizes, w \in Sizes :
          LET size == <<block.args.in_channels, h, w>>
          IN  fwd' = [size |-> size, r |-> FishBlockForward(block.r.val, size)]
    /\ pc' = "block_fwd"
    /\ UNCHANGED <<sq, block, unit, ufwd, frame, trace, y>>

\* unit = DownUnit(...) | UpUnit(...) | SkipUnit(...)
UnitNew ==
    /\ pc = "idle"
    /\ \E kind \in {"DownUnit", "UpUnit", "SkipUnit"}, in_channels \in UnitChans,
          out_channels_list \in ChannelLists :
          unit' = [kind |-> kind, in_channels |-> in_channels,
                   out_channels_list |-> out_channels_list,
                   r |-> CASE kind = "DownUnit" ->
                                 DownUnitInit(in_channels, out_channels_list)
                           [] kind = "UpUnit" ->
                                 UpUnitInit(in_channels, out_channels_list)
                           [] OTHER ->
                                 SkipUnitInit(in_channels, out_channels_list)]
    /\ pc' = "unit"
    /\ UNCHANGED <<sq, block, fwd, ufwd, frame, trace, y>>

\* unit(x) for x of size <<in_channels, H, W>>
UnitCall ==
    /\ pc = "unit"
    /\ IsOk(unit.r)
    /\ \E h \in Sizes, w \in Sizes :
          LET size == <<unit.in_channels, h, w>>
          IN  ufwd' = [size |-> size, r |-> UnitForward(unit.r.val, size)]
    /\ pc' = "unit_fwd"
    /\ UNCHANGED <<sq, block, fwd, unit, frame, trace, y>>

\* The frame of a fresh call of get_fishnet.
NewFrame(caller, blocks, model_name, pretrained, in_size, num_classes) ==
    [NoFrame EXCEPT !.caller = caller, !.blocks = blocks,
                    !.model_name = model_name, !.pretrained = pretrained,
                    !.in_size = in_size, !.num_classes = num_classes]

\* get_fishnet(blocks, model_name, pretrained, in_size=..., num_classes=...)
CallGetFishnet ==
    /\ pc = "idle"
    /\ \E blocks \in BlockCodes, model_name \in ModelNames,
          pretrained \in BOOLEAN, in_size \in InSizes,
          num_classes \in ClassCounts :
          frame' = NewFrame("get_fishnet", blocks, model_name, pretrained,
                            in_size, num_classes)
    /\ pc' = "gf_select"
    /\ UNCHANGED <<sq, block, fwd, unit, ufwd, trace, y>>

\* fishnet99(**kwargs)
CallFishnet99 ==
    /\ pc = "idle"
    /\ \E pretrained \in BOOLEAN, in_size \in InSizes,
          num_classes \in ClassCounts :
          frame' = NewFrame("fishnet99", 99, PyStr("fishnet99"), pretrained,
                            in_size, num_classes)
    /\ pc' = "gf_select"
    /\ UNCHANGED <<sq, block, fwd, unit, ufwd, trace, y>>

\* fishnet150(**kwargs)
CallFishnet150 ==
    /\ pc = "idle"
    /\ \E pretrained \in BOOLEAN, in_size \in InSizes,
          num_classes \in ClassCounts :
          frame' = NewFrame("fishnet150", 150, PyStr("fishnet150"), pretrained,
                            in_size, num_classes)
    /\ pc' = "gf_select"
    /\ UNCHANGED <<sq, block, fwd, unit, ufwd, trace, y>>

\* _test(): net = fishnet150(pretrained=False)
CallTest ==
    /\ pc = "idle"
    /\ frame' = NewFrame("_test", 150, PyStr("fishnet150"), FALSE,
                         DefaultInSize, DefaultNumClasses)
    /\ pc' = "gf_select"
    /\ UNCHANGED <<sq, block, fwd, unit, ufwd, trace, y>>

\* get_fishnet: the dispatch on `blocks`
GfSelect ==
    /\ pc = "gf_select"
    /\ LET t == SelectVariant(frame.blocks)
       IN  IF IsOk(t)
           THEN /\ frame' = [frame EXCEPT !.tables = t.val]
                /\ pc' = "gf_schedule"
           ELSE /\ frame' = [frame EXCEPT !.err = t.err]
                /\ pc' = "gf_done"
    /\ UNCHANGED <<sq, block, fwd, unit, ufwd, trace, y>>

\* get_fishnet: direct_channels, skip_channels
GfSchedule ==
    /\ pc = "gf_schedule"
    /\ frame' = [frame EXCEPT
                   !.direct_channels =
                       ChannelSchedule(frame.tables.direct_channels_per_layers,
                                       frame.tables.direct_layers),
                   !.skip_channels =
                       ChannelSchedule(frame.tables.skip_channels_per_layers,
                                       frame.tables.skip_layers)]
    /\ pc' = "gf_construct"
    /\ UNCHANGED <<sq, block, fwd, unit, ufwd, trace, y>>

\* get_fishnet: net = FishNet(...), the pretrained branch, return net
GfConstruct ==
    /\ pc = "gf_construct"
    /\ LET built == FishNetInit(frame.direct_channels, frame.skip_channels,
                                InitBlockChannels, DefaultInChannels,
                                <<frame.in_size, frame.in_size>>,
                                frame.num_classes)
           fin == FinishBuild(built, frame.model_name, frame.pretrained)
       IN  /\ frame' = [frame EXCEPT !.err = fin.err, !.net = fin.net]
           /\ trace' = trace \o fin.events
    /\ pc' = "gf_done"
    /\ UNCHANGED <<sq, block, fwd, unit, ufwd, y>>

\* The caller's next statement, y = net(x) with x of size
\* (batch, in_channels, in_size, in_size); an exception raised by the
\* builder propagates instead.  _test uses batch 1 and asserts the size of y.
NetCall ==
    /\ pc = "gf_done"
    /\ \E batch \in 1..MaxBatch :
          /\ frame.caller = "_test" => batch = 1
          /\ LET r == IF frame.err # "none" THEN Raise(frame.err)
                      ELSE FishNetForward(frame.net, batch,
                                          <<DefaultInChannels, frame.in_size,
                                            frame.in_size>>)
             IN  y' = [batch |-> batch,
                       r |-> IF frame.caller = "_test" /\ IsOk(r)
                                /\ r.val # <<1, DefaultNumClasses>>
                             THEN Raise("AssertionError") ELSE r]
    /\ pc' = "called"
    /\ UNCHANGED <<sq, block, fwd, unit, ufwd, frame, trace>>

\* The call is over; the next one starts from scratch.
Reset ==
    /\ pc \in {"squeezed", "block", "block_fwd", "unit", "unit_fwd",
               "gf_done", "called"}
    /\ pc' = "idle"
    /\ sq' = NoSq
    /\ block' = NoBlock
    /\ fwd' = NoFwd
    /\ unit' = NoUnit
    /\ ufwd' = NoUfwd
    /\ frame' = NoFrame
    /\ trace' = <<>>
    /\ y' = NoY

Next ==
    \/ SqueezeCall
    \/ BlockNew
    \/ BlockForward
    \/ UnitNew
    \/ UnitCall
    \/ CallGetFishnet
    \/ CallFishnet99
    \/ CallFishnet150
    \/ CallTest
    \/ GfSelect
    \/ GfSchedule
    \/ GfConstruct
    \/ NetCall
    \/ Reset

Spec == Init /\ [][Next]_vars

\* ================================================================ claims
Built == pc \in {"block", "block_fwd"}

HalvesEqual(x) ==
    \A c \in 1..(Len(x) \div 2) : x[c] = x[c + Len(x) \div 2]

PairsEqual(x) ==
    \A k \in 1..(Len(x) \div 2) : x[2 * k - 1] = x[2 * k]

\* C1: for the supported variant code 150, called with pretrained=False and
\* the default in_size and num_classes, get_fishnet completes and returns a
\* FishNet without raising.
C1_BuildCompletes ==
    (/\ pc = "gf_done"
     /\ frame.blocks = 150
     /\ ~frame.pretrained
     /\ frame.in_size = DefaultInSize
     /\ frame.num_classes = DefaultNumClasses)
    => (frame.err = "none" /\ frame.net.kind = "FishNet")

\* C2: building the 150 variant and running a forward pass on an input of
\* size (b, in_channels, in_size, in_size) yields a tensor of size
\* (b, num_classes).
C2_ForwardShape ==
    (/\ pc = "called"
     /\ frame.blocks = 150
     /\ ~frame.pretrained)
    => (y.r.err = "none" /\ y.r.val = <<y.batch, frame.num_classes>>)

\* C3: for every variant code outside the supported set (99 included, hence
\* every call of fishnet99), get_fishnet raises ValueError at the dispatch:
\* the call never gets past it, no FishNet constructor call and no weight
\* download has happened, and no net is returned.
C3_UnsupportedVariantRaisesFirst ==
    (pc \in {"gf_schedule", "gf_construct", "gf_done", "called"}
     /\ frame.blocks # 150)
    => (/\ pc \in {"gf_done", "called"}
        /\ frame.err = "ValueError"
        /\ frame.net.kind = "None"
        /\ trace = <<>>)

\* C3 witness: fishnet99(pretrained=True) has ended in the ValueError.
C3_Witness ==
    /\ pc = "gf_done"
    /\ frame.caller = "fishnet99"
    /\ frame.pretrained
    /\ frame.err = "ValueError"

\* C4: get_fishnet called with pretrained=True and a model_name that is None
\* or empty ends in a configuration error (ValueError), and download_model
\* is never reached.
C4_MissingNameRaisesConfigError ==
    (/\ pc = "gf_done"
     /\ frame.pretrained
     /\ NameMissing(frame.model_name))
    => (frame.err = "ValueError" /\ "download_model" \notin Range(trace))

\* C5: FishBlock(..., squeeze=True) is constructed only if
\* in_channels = 2 * out_channels; for every other pair (odd in_channels
\* with in_channels // 2 = out_channels included) the constructor raises and
\* no block is returned.
C5_SqueezeNeedsDoubleWidth ==
    (Built /\ block.args.squeeze)
    => /\ IsOk(block.r) => block.args.in_channels = 2 * block.args.out_channels
       /\ block.args.in_channels # 2 * block.args.out_channels
          => (block.r.err \in {"AssertionError", "ValueError"}
              /\ block.r.val.kind = "None")

\* C5 witness: an odd in_channels with in_channels // 2 = out_channels passed
\* the assertion and was rejected by ChannelSqueeze.
C5_Witness ==
    /\ pc = "block"
    /\ block.args.squeeze
    /\ block.args.in_channels % 2 = 1
    /\ block.args.in_channels \div 2 = block.args.out_channels
    /\ block.r.err = "ValueError"

\* C6 (as claimed): a FishBottleneck, and any FishBlock containing it, whose
\* out_channels is not divisible by 4 is rejected at construction.
C6_NonMultipleOf4Rejected ==
    (pc = "block" /\ block.args.out_channels % 4 # 0) => ~IsOk(block.r)

\* C6 (amended): FishBottleneck.__init__ checks no divisibility.  Every
\* FishBlock without squeeze is constructed whatever out_channels is, and
\* the bottleneck of every constructed block has
\* mid_channels = floor(out_channels / 4), with the three convolution
\* blocks going in_channels -> mid -> mid -> out_channels.
C6_FloorQuarterBuilt ==
    Built
    => /\ ~block.args.squeeze => IsOk(block.r)
       /\ IsOk(block.r)
          => LET body == block.r.val.body
                 mid == block.args.out_channels \div 4
             IN  /\ body.mid_channels = mid
                 /\ body.conv1.in_channels = block.args.in_channels
                 /\ body.conv1.out_channels = mid
                 /\ body.conv2.in_channels = mid
                 /\ body.conv2.out_channels = mid
                 /\ body.conv3.in_channels = mid
                 /\ body.conv3.out_channels = block.args.out_channels

\* C6 witness: a block was built whose out_channels is no multiple of 4.
C6_Witness ==
    /\ pc = "block"
    /\ IsOk(block.r)
    /\ block.args.out_channels % 4 # 0
    /\ 4 * block.r.val.body.mid_channels < block.args.out_channels

\* C7 (as claimed): channel_squeeze with groups = 2 on an even number C of
\* channels whose two halves are equal returns C/2 channels, output channel
\* k being twice input channel k.
C7_HalvesDoubling ==
    (/\ pc = "squeezed"
     /\ sq.groups = 2
     /\ Len(sq.x) % 2 = 0
     /\ HalvesEqual(sq.x))
    => /\ IsOk(sq.out)
       /\ Len(sq.out.val) = Len(sq.x) \div 2
       /\ \A k \in 1..(Len(sq.x) \div 2) : sq.out.val[k] = 2 * sq.x[k]

\* C7 (amended): channel_squeeze with groups = 2 on an even number C of
\* channels returns C/2 channels, output channel k (from 0) being the sum of
\* the adjacent input channels 2k and 2k+1; so when the two channels of
\* every adjacent pair are equal, output channel k is twice input channel 2k.
C7_AdjacentPairsSum ==
    (/\ pc = "squeezed"
     /\ sq.groups = 2
     /\ Len(sq.x) % 2 = 0)
    => /\ IsOk(sq.out)
       /\ Len(sq.out.val) = Len(sq.x) \div 2
       /\ \A k \in 1..(Len(sq.x) \div 2) :
             sq.out.val[k] = sq.x[2 * k - 1] + sq.x[2 * k]
       /\ PairsEqual(sq.x)
          => \A k \in 1..(Len(sq.x) \div 2) : sq.out.val[k] = 2 * sq.x[2 * k - 1]

\* C7 witness: a 4-channel tensor with equal adjacent pairs and different
\* halves was squeezed.
C7_Witness ==
    /\ pc = "squeezed"
    /\ sq.groups = 2
    /\ Len(sq.x) = 4
    /\ PairsEqual(sq.x)
    /\ sq.x[1] # sq.x[3]
    /\ sq.out.val = <<2 * sq.x[1], 2 * sq.x[3]>>

\* The shortcut the construction arguments call for.
PolicyBranch(a) ==
    IF a.squeeze THEN "squeeze"
    ELSE IF a.in_channels # a.out_channels \/ a.stride # 1 THEN "projection"
    ELSE "identity"

\* C8: the shortcut of a FishBlock is fixed at construction: squeeze ->
\* ChannelSqueeze(groups=2) and nothing else; otherwise in_channels #
\* out_channels or stride # 1 -> a 1x1 projection with the block's stride and
\* nothing else; otherwise no module (identity).  Every forward call takes
\* the branch whose module was built and never reads a missing module.
C8_ShortcutPolicy ==
    (Built /\ IsOk(block.r))
    => LET b == block.r.val
           a == block.args
       IN  /\ PolicyBranch(a) = "squeeze"
              => /\ b.c_squeeze.kind = "ChannelSqueeze"
                 /\ b.c_squeeze.groups = 2
                 /\ b.identity_conv.kind = "None"
           /\ PolicyBranch(a) = "projection"
              => /\ b.c_squeeze.kind = "None"
                 /\ b.identity_conv.kind = "pre_conv1x1_block"
                 /\ b.identity_conv.stride = a.stride
                 /\ b.identity_conv.in_channels = a.in_channels
                 /\ b.identity_conv.out_channels = a.out_channels
           /\ PolicyBranch(a) = "identity"
              => /\ b.c_squeeze.kind = "None"
                 /\ b.identity_conv.kind = "None"
           /\ pc = "block_fwd"
              => /\ fwd.r.branch = PolicyBranch(a)
                 /\ fwd.r.err # "AttributeError"
                 /\ fwd.r.branch = "identity" => fwd.r.identity = fwd.size

\* C8 witness: a forward call took the squeeze branch.
C8_Witness ==
    /\ pc = "block_fwd"
    /\ block.args.squeeze
    /\ fwd.r.branch = "squeeze"
    /\ fwd.r.identity = <<block.args.out_channels, fwd.size[2], fwd.size[3]>>

\* C9: a DownUnit or UpUnit built from in_channels and a non-empty
\* out_channels_list maps an input of size (in_channels, H, W) to the last
\* entry of out_channels_list channels, at (H/2, W/2) for a DownUnit on even
\* H, W and at (2H, 2W) for an UpUnit.
C9_UnitOutputSize ==
    (/\ pc = "unit_fwd"
     /\ unit.out_channels_list # <<>>
     /\ unit.kind \in {"DownUnit", "UpUnit"}
     /\ unit.kind = "DownUnit" => (ufwd.size[2] % 2 = 0 /\ ufwd.size[3] % 2 = 0))
    => /\ IsOk(ufwd.r)
       /\ ufwd.r.val =
            <<unit.out_channels_list[Len(unit.out_channels_list)],
              IF unit.kind = "DownUnit" THEN ufwd.size[2] \div 2
              ELSE 2 * ufwd.size[2],
              IF unit.kind = "DownUnit" THEN ufwd.size[3] \div 2
              ELSE 2 * ufwd.size[3]>>

\* C10: in every forward call of a constructed FishBlock the body output and
\* the shortcut output have the same (channels, height, width), squeeze
\* combined with stride 2 included.
C10_ResidualSizesAgree ==
    pc = "block_fwd"
    => (fwd.r.err = "none" /\ fwd.r.bodyout = fwd.r.identity)

=============================================================================
